---- MODULE Spec2Model ----
(***************************************************************************)
(* SmartEdU academic IR prototype (prototype_app.py): the module-level     *)
(* load of students.csv, grades.csv and courses.json, the wide-to-long     *)
(* normalisation of the grades table, the merge of the course metadata,    *)
(* and the index() request handler with its three matching passes, its     *)
(* (student_id, filename) de-duplication and its category filter.          *)
(*                                                                         *)
(* A Python str is a sequence of one-character strings; a DataFrame is a   *)
(* record [columns, rows] whose rows are functions from column names to    *)
(* cells; a directory is a set of named entries.                           *)
(***************************************************************************)
EXTENDS Integers, Sequences, FiniteSets, TLC

VARIABLES
    disk,            \* the files under BASE and the installed libraries
    pc,              \* position of the process: boot, loaded, normalized,
                     \* serving, responded, crashed
    students_df,     \* module global, line 59
    grades_df,       \* module global, line 60
    courses_data,    \* module global, line 61
    grades_long_df,  \* module global, lines 64-68 and 79
    courses_df,      \* module global, lines 71-74
    request,         \* request.args of the request being served
    response,        \* what index() hands to render_template_string
    extracted        \* the calls of extract_text_from_file made by the request

vars == <<disk, pc, students_df, grades_df, courses_data, grades_long_df,
          courses_df, request, response, extracted>>

----------------------------------------------------------------------------
(* Python strings *)

UpperLetters == <<"A","B","C","D","E","F","G","H","I","J","K","L","M",
                  "N","O","P","Q","R","S","T","U","V","W","X","Y","Z">>
LowerLetters == <<"a","b","c","d","e","f","g","h","i","j","k","l","m",
                  "n","o","p","q","r","s","t","u","v","w","x","y","z">>
Digits == <<"0","1","2","3","4","5","6","7","8","9">>

\* The characters of the model in code-point order.
Chars == <<" ", ".">> \o Digits \o <<"@">> \o UpperLetters \o <<"_">> \o LowerLetters

CodeOf == [c \in {Chars[i] : i \in DOMAIN Chars} |->
             CHOOSE i \in DOMAIN Chars : Chars[i] = c]

Code(c) == CodeOf[c]

Whitespace == {" ", "\t", "\n"}

\* str.lower()
UpperSet == {UpperLetters[i] : i \in DOMAIN UpperLetters}

LowerOf == [c \in UpperSet |->
              LowerLetters[CHOOSE i \in DOMAIN UpperLetters : UpperLetters[i] = c]]

LowerChar(c) == IF c \in UpperSet THEN LowerOf[c] ELSE c

Lower(s) == [i \in DOMAIN s |-> LowerChar(s[i])]

\* str.strip()
Strip(s) ==
    LET keep == {i \in DOMAIN s : s[i] \notin Whitespace}
    IN  IF keep = {} THEN <<>>
        ELSE LET lo == CHOOSE i \in keep : \A j \in keep : i <= j
                 hi == CHOOSE i \in keep : \A j \in keep : j <= i
             IN  SubSeq(s, lo, hi)

\* sub in s
Contains(s, sub) ==
    \E i \in 0..(Len(s) - Len(sub)) : SubSeq(s, i + 1, i + Len(sub)) = sub

\* s[:n]
Prefix(s, n) == SubSeq(s, 1, IF Len(s) < n THEN Len(s) ELSE n)

----------------------------------------------------------------------------
(* pandas values and frames *)

\* The column names the code reads or writes (string literals of the source).
col_student_id == <<"s","t","u","d","e","n","t","_","i","d">>
col_course_id == <<"c","o","u","r","s","e","_","i","d">>
col_score == <<"s","c","o","r","e">>
col_name == <<"n","a","m","e">>
col_programme == <<"p","r","o","g","r","a","m","m","e">>
col_email == <<"e","m","a","i","l">>
col_title == <<"t","i","t","l","e">>
col_lecturer == <<"l","e","c","t","u","r","e","r">>

\* float('nan'): the missing-value marker of pandas. Not a string.
NaN == <<"NaN">>

\* A JSON number is the marker "#" followed by its digits. Not a string.
IsNumber(v) == Len(v) > 0 /\ v[1] = "#"

\* str(v)
Str(v) ==
    IF v = NaN THEN <<"n","a","n">>
    ELSE IF IsNumber(v) THEN Tail(v)
    ELSE v

\* pd.DataFrame()
EmptyFrame == [columns |-> <<>>, rows |-> <<>>]

\* df.empty
IsEmpty(df) == Len(df.columns) = 0 \/ Len(df.rows) = 0

\* c in df.columns
HasColumn(df, c) == \E i \in DOMAIN df.columns : df.columns[i] = c

\* row.get(c, default)
Get(row, c, default) == IF c \in DOMAIN row THEN row[c] ELSE default

\* Some of the cell texts pandas.read_csv reads as missing (its default na_values).
NaValues == {<<>>, <<"N","A">>, <<"n","a","n">>, <<"n","u","l","l">>}

\* pd.read_csv(path, dtype=str)
read_csv(table) ==
    [columns |-> table.columns,
     rows |-> [i \in DOMAIN table.rows |->
                 [c \in DOMAIN table.rows[i] |->
                     IF table.rows[i][c] \in NaValues THEN NaN ELSE table.rows[i][c]]]]

\* df.fillna("")
fillna(df) ==
    [columns |-> df.columns,
     rows |-> [i \in DOMAIN df.rows |->
                 [c \in DOMAIN df.rows[i] |->
                     IF df.rows[i][c] = NaN THEN <<>> ELSE df.rows[i][c]]]]

\* load_csv_safe: a file is [exists, parses, table]
load_csv_safe(file) ==
    IF ~file.exists THEN EmptyFrame
    ELSE IF ~file.parses THEN EmptyFrame
    ELSE fillna(read_csv(file.table))

\* json.load gives a list of objects, [kind |-> "list", items |-> ...] with each
\* item a sequence of <<key, value>> pairs, or something that is no list.
EmptyList == [kind |-> "list", items |-> <<>>]

\* load_json_safe: a file is [exists, parses, value]
load_json_safe(file) ==
    IF ~file.exists THEN EmptyList
    ELSE IF ~file.parses THEN EmptyList
    ELSE file.value

----------------------------------------------------------------------------
(* Files and folders *)

\* Path.suffix: from the last dot, unless the dot starts or ends the name.
Suffix(fname) ==
    LET dots == {i \in DOMAIN fname : fname[i] = "."}
    IN  IF dots = {} THEN <<>>
        ELSE LET last == CHOOSE i \in dots : \A j \in dots : j <= i
             IN  IF 1 < last /\ last < Len(fname)
                 THEN SubSeq(fname, last, Len(fname))
                 ELSE <<>>

RECURSIVE JoinPages(_)
\* text += (p.extract_text() or "") over reader.pages
JoinPages(pages) ==
    IF pages = <<>> THEN <<>>
    ELSE (IF Head(pages) = <<"None">> THEN <<>> ELSE Head(pages)) \o JoinPages(Tail(pages))

\* extract_text_from_file: a file is [name, kind, text, pages, fails]; fails says
\* that reading or parsing it raises. hasPdfReader: PdfReader is not None.
extract_text_from_file(file, hasPdfReader) ==
    IF Lower(Suffix(file.name)) = <<".","t","x","t">>
    THEN IF file.fails THEN <<>> ELSE file.text
    ELSE IF Lower(Suffix(file.name)) = <<".","p","d","f">> /\ hasPdfReader
    THEN IF file.fails THEN <<>> ELSE JoinPages(file.pages)
    ELSE <<>>

RECURSIVE LexLess(_, _)
\* a < b for Python strings (code-point order)
LexLess(a, b) ==
    IF b = <<>> THEN FALSE
    ELSE IF a = <<>> THEN TRUE
    ELSE IF Head(a) = Head(b) THEN LexLess(Tail(a), Tail(b))
    ELSE Code(Head(a)) < Code(Head(b))

RECURSIVE sorted(_)
\* sorted(folder.iterdir()): the entries of a directory in the order of their names
sorted(entries) ==
    IF entries = {} THEN <<>>
    ELSE LET first == CHOOSE e \in entries :
                        \A o \in entries : o = e \/ LexLess(e.name, o.name)
         IN  <<first>> \o sorted(entries \ {first})

----------------------------------------------------------------------------
(* Normalisation of the grades table and merge of the course metadata *)

\* s in seq
InSeq(x, seq) == \E i \in DOMAIN seq : seq[i] = x

\* pandas before 2.0 only warns when value_name is already a column; pandas
\* 2.x raises ValueError. The installed version decides (strictMelt).
MeltRaises(df, strictMelt) == strictMelt /\ HasColumn(df, col_score)

\* melt without id_vars: the identity column is melted like a course column.
meltAllColumns(df) ==
    LET valueCols == df.columns
        n == Len(df.rows)
    IN  [columns |-> <<col_student_id, col_course_id, col_score>>,
         rows |-> [j \in 1..(n * Len(valueCols)) |->
                     LET k == ((j - 1) \div n) + 1
                         i == ((j - 1) % n) + 1
                     IN  (col_student_id :> df.rows[i][col_student_id])
                         @@ (col_course_id :> valueCols[k])
                         @@ (col_score :> df.rows[i][valueCols[k]])]]

\* grades_df.melt(id_vars="student_id", var_name="course_id", value_name="score"):
\* one row per value column and input row, value column by value column.
melt(df) ==
    LET valueCols == SelectSeq(df.columns, LAMBDA c : c # col_student_id)
        n == Len(df.rows)
    IN  [columns |-> <<col_student_id, col_course_id, col_score>>,
         rows |-> [j \in 1..(n * Len(valueCols)) |->
                     LET k == ((j - 1) \div n) + 1
                         i == ((j - 1) % n) + 1
                     IN  (col_student_id :> df.rows[i][col_student_id])
                         @@ (col_course_id :> valueCols[k])
                         @@ (col_score :> df.rows[i][valueCols[k]])]]

\* Line 64: the layout test.
IsWideLayout(df) ==
    ~IsEmpty(df) /\ HasColumn(df, col_student_id) /\ Len(df.columns) > 2

\* Lines 64-68, when melt does not raise.
NormalizeLayout(df) == IF IsWideLayout(df) THEN melt(df) ELSE df

RECURSIVE ItemKeys(_, _)
\* The keys of the JSON objects in the order of their first appearance.
ItemKeys(items, acc) ==
    IF items = <<>> THEN acc
    ELSE LET item == Head(items)
             new == SelectSeq([i \in DOMAIN item |-> item[i][1]],
                              LAMBDA k : ~InSeq(k, acc))
         IN  ItemKeys(Tail(items), acc \o new)

\* pd.DataFrame(courses_data), with the except of lines 73-74: a value that is
\* no list of objects makes the constructor raise.
DataFrame(data) ==
    IF data.kind # "list" THEN EmptyFrame
    ELSE LET cols == ItemKeys(data.items, <<>>)
         IN  [columns |-> cols,
              rows |-> [i \in DOMAIN data.items |->
                          [c \in {cols[k] : k \in DOMAIN cols} |->
                              LET item == data.items[i]
                              IN  IF \E k \in DOMAIN item : item[k][1] = c
                                  THEN item[CHOOSE k \in DOMAIN item : item[k][1] = c][2]
                                  ELSE NaN]]]

\* A key column of numbers has a numeric dtype.
NumericKey(df) ==
    /\ \A i \in DOMAIN df.rows :
          IsNumber(df.rows[i][col_course_id]) \/ df.rows[i][col_course_id] = NaN
    /\ \E i \in DOMAIN df.rows : IsNumber(df.rows[i][col_course_id])

\* merge raises ValueError on an object key against a numeric key, when both
\* frames have rows.
MergeRaises(left, right) ==
    Len(left.rows) > 0 /\ Len(right.rows) > 0 /\ NumericKey(right)

RECURSIVE Flatten(_)
Flatten(seqs) == IF seqs = <<>> THEN <<>> ELSE Head(seqs) \o Flatten(Tail(seqs))

\* left.merge(right, on="course_id", how="left"): every left row, in order, once
\* per right row of the same key, or once with NaN in the right columns.
merge_left(left, right) ==
    LET key == col_course_id
        overlap == {c \in {left.columns[i] : i \in DOMAIN left.columns} :
                       c # key /\ InSeq(c, right.columns)}
        lname(c) == IF c \in overlap THEN c \o <<"_","x">> ELSE c
        rname(c) == IF c \in overlap THEN c \o <<"_","y">> ELSE c
        rcols == SelectSeq(right.columns, LAMBDA c : c # key)
        lpart(l) == [c \in {lname(left.columns[i]) : i \in DOMAIN left.columns} |->
                        l[CHOOSE o \in DOMAIN l : lname(o) = c]]
        rpart(r) == [c \in {rname(rcols[i]) : i \in DOMAIN rcols} |->
                        r[CHOOSE o \in DOMAIN r : o # key /\ rname(o) = c]]
        blank == [c \in {rname(rcols[i]) : i \in DOMAIN rcols} |-> NaN]
        joined(l) ==
            LET hits == SelectSeq(right.rows, LAMBDA r : r[key] = l[key])
            IN  IF hits = <<>> THEN <<lpart(l) @@ blank>>
                ELSE [h \in DOMAIN hits |-> lpart(l) @@ rpart(hits[h])]
    IN  [columns |-> [i \in DOMAIN left.columns |-> lname(left.columns[i])]
                     \o [i \in DOMAIN rcols |-> rname(rcols[i])],
         rows |-> Flatten([i \in DOMAIN left.rows |-> joined(left.rows[i])])]

\* Lines 77-81.
MergeCourses(long, courses) ==
    IF HasColumn(long, col_course_id) /\ HasColumn(courses, col_course_id)
    THEN IF MergeRaises(long, courses) THEN long ELSE merge_left(long, courses)
    ELSE long

----------------------------------------------------------------------------
(* The request handler index() *)

\* Lines 175 and 187: text[:300]
PreviewLen == 300

\* Lines 129 and 163.
StudentDocument == <<"(","s","t","u","d","e","n","t"," ","d","o","c","u","m","e","n","t",")">>

\* Line 175.
NoExtractableText == <<"(","n","o"," ","e","x","t","r","a","c","t","a","b","l","e"," ","t","e","x","t",")">>

\* UNSTRUCTURED_DIR / sid: the directory itself for "" and ".", else its entry
\* of that name. A directory is [exists, isdir, entries].
Missing == [exists |-> FALSE, isdir |-> FALSE, entries |-> {}]

ResolveFolder(root, sid) ==
    IF sid = <<>> \/ sid = <<".">>
    THEN [exists |-> root.exists, isdir |-> root.exists, entries |-> root.entries]
    ELSE IF root.exists /\ \E e \in root.entries : e.name = sid
    THEN LET e == CHOOSE e \in root.entries : e.name = sid
         IN  [exists |-> TRUE, isdir |-> e.kind = "dir", entries |-> e.children]
    ELSE Missing

\* list_student_docs
list_student_docs(root, student_id) ==
    LET sid == Strip(Str(student_id))
        folder == ResolveFolder(root, sid)
    IN  IF folder.exists /\ folder.isdir
        THEN LET files == SelectSeq(sorted(folder.entries), LAMBDA f : f.kind = "file")
             IN  [i \in DOMAIN files |->
                    [filename |-> files[i].name,
                     filepath |-> <<"/","f","i","l","e","s","/">> \o sid \o <<"/">>
                                  \o files[i].name]]
        ELSE <<>>

\* if key not in seen_docs: seen_docs.add(key); results["documents"].append(...)
\* (lines 124-130, 158-164, 169-176, 182-188). acc is [documents, seen, ...].
AddDocumentAlways(acc, key, preview) ==
    [acc EXCEPT !.seen = @ \cup {key},
                !.documents = Append(@, [student_id |-> key[1],
                                         filename |-> key[2],
                                         preview |-> preview])]

AddDocument(acc, key, preview) ==
    IF key \notin acc.seen
    THEN [acc EXCEPT !.seen = @ \cup {key},
                     !.documents = Append(@, [student_id |-> key[1],
                                              filename |-> key[2],
                                              preview |-> preview])]
    ELSE acc

\* Line 116 without the identity test.
StudentMatchesNoId(q, row) ==
    \/ Contains(Lower(Strip(Str(Get(row, col_name, <<>>)))), q)
    \/ Contains(Lower(Strip(Str(Get(row, col_programme, <<>>)))), q)
    \/ Contains(Lower(Strip(Str(Get(row, col_email, <<>>)))), q)

\* Lines 110-116: exact id, or partial name, programme or email.
StudentMatches(q, row) ==
    \/ q = Lower(Strip(Str(Get(row, col_student_id, <<>>))))
    \/ Contains(Lower(Strip(Str(Get(row, col_name, <<>>)))), q)
    \/ Contains(Lower(Strip(Str(Get(row, col_programme, <<>>)))), q)
    \/ Contains(Lower(Strip(Str(Get(row, col_email, <<>>)))), q)

RECURSIVE AddListed(_, _, _)
\* Lines 122-130: the loop over the student's listed documents.
AddListed(acc, sid, docs) ==
    IF docs = <<>> THEN acc
    ELSE AddListed(AddDocument(acc, <<sid, Head(docs).filename>>, StudentDocument),
                   sid, Tail(docs))

RECURSIVE StudentPass(_, _, _, _)
\* Lines 109-130: the loop over students_df.iterrows().
StudentPass(acc, q, rows, root) ==
    IF rows = <<>> THEN acc
    ELSE LET row == Head(rows)
             sid == Strip(Str(Get(row, col_student_id, <<>>)))
         IN  IF StudentMatches(q, row)
             THEN StudentPass(
                    AddListed([acc EXCEPT !.students = Append(@, row)],
                              sid, list_student_docs(root, sid)),
                    q, Tail(rows), root)
             ELSE StudentPass(acc, q, Tail(rows), root)

\* Lines 135-139.
GradeMatches(q, row) ==
    LET sid == Lower(Strip(Str(Get(row, col_student_id, <<>>))))
        cid == Lower(Strip(Str(Get(row, col_course_id, <<>>))))
        title == IF col_title \in DOMAIN row
                 THEN Lower(Strip(Str(Get(row, col_title, <<>>)))) ELSE <<>>
        lecturer == IF col_lecturer \in DOMAIN row
                    THEN Lower(Strip(Str(Get(row, col_lecturer, <<>>)))) ELSE <<>>
    IN  Contains(sid, q) \/ Contains(cid, q) \/ Contains(title, q)
        \/ Contains(lecturer, q)

\* Lines 133-140.
CoursePass(q, long) ==
    IF ~IsEmpty(long) THEN SelectSeq(long.rows, LAMBDA row : GradeMatches(q, row))
    ELSE <<>>

\* Lines 153-188 with the continue of line 177 missing: a filename match falls
\* through to the content search.
FileStepFallThrough(acc, q, sid_folder, file, hasPdfReader) ==
    LET key == <<sid_folder, file.name>>
        text == extract_text_from_file(file, hasPdfReader)
        noted == [acc EXCEPT !.extracted = Append(@, key)]
        named == IF Contains(Lower(file.name), q) /\ key \notin acc.seen
                 THEN AddDocument(noted, key,
                        IF text # <<>> THEN Prefix(text, PreviewLen)
                        ELSE NoExtractableText)
                 ELSE acc
        again == [named EXCEPT !.extracted = Append(@, key)]
    IN  IF q = Lower(sid_folder) THEN AddDocument(acc, key, StudentDocument)
        ELSE IF text # <<>> /\ Contains(Lower(text), q)
        THEN AddDocument(again, key, Prefix(text, PreviewLen))
        ELSE again

\* Lines 153-188 with the content rule previewing the placeholder.
FileStepPlaceholder(acc, q, sid_folder, file, hasPdfReader) ==
    LET key == <<sid_folder, file.name>>
        text == extract_text_from_file(file, hasPdfReader)
        noted == [acc EXCEPT !.extracted = Append(@, key)]
    IN  IF q = Lower(sid_folder) THEN AddDocument(acc, key, StudentDocument)
        ELSE IF Contains(Lower(file.name), q)
        THEN IF key \notin acc.seen
             THEN AddDocument(noted, key,
                    IF text # <<>> THEN Prefix(text, PreviewLen)
                    ELSE NoExtractableText)
             ELSE acc
        ELSE IF text # <<>> /\ Contains(Lower(text), q)
        THEN AddDocument(noted, key, StudentDocument)
        ELSE noted

\* Lines 153-188: one file of one student folder.
FileStep(acc, q, sid_folder, file, hasPdfReader) ==
    LET key == <<sid_folder, file.name>>
        text == extract_text_from_file(file, hasPdfReader)
        noted == [acc EXCEPT !.extracted = Append(@, key)]
    IN  IF q = Lower(sid_folder) THEN AddDocument(acc, key, StudentDocument)
        ELSE IF Contains(Lower(file.name), q)
        THEN IF key \notin acc.seen
             THEN AddDocument(noted, key,
                    IF text # <<>> THEN Prefix(text, PreviewLen)
                    ELSE NoExtractableText)
             ELSE acc
        ELSE IF text # <<>> /\ Contains(Lower(text), q)
        THEN AddDocument(noted, key, Prefix(text, PreviewLen))
        ELSE noted

RECURSIVE FolderLoop(_, _, _, _, _)
\* Lines 150-188: the loop over sorted(student_folder.iterdir()).
FolderLoop(acc, q, sid_folder, files, hasPdfReader) ==
    IF files = <<>> THEN acc
    ELSE IF Head(files).kind # "file"
    THEN FolderLoop(acc, q, sid_folder, Tail(files), hasPdfReader)
    ELSE FolderLoop(FileStep(acc, q, sid_folder, Head(files), hasPdfReader),
                    q, sid_folder, Tail(files), hasPdfReader)

RECURSIVE DocumentLoop(_, _, _, _)
\* Lines 146-188: the loop over sorted(UNSTRUCTURED_DIR.iterdir()).
DocumentLoop(acc, q, folders, hasPdfReader) ==
    IF folders = <<>> THEN acc
    ELSE IF Head(folders).kind # "dir"
    THEN DocumentLoop(acc, q, Tail(folders), hasPdfReader)
    ELSE DocumentLoop(
            FolderLoop(acc, q, Head(folders).name, sorted(Head(folders).children),
                       hasPdfReader),
            q, Tail(folders), hasPdfReader)

\* Lines 145-188.
DocumentPass(acc, q, root, hasPdfReader) ==
    IF root.exists THEN DocumentLoop(acc, q, sorted(root.entries), hasPdfReader)
    ELSE acc

\* Line 102, with the request's log of extractions.
EmptyResults ==
    [students |-> <<>>, courses |-> <<>>, documents |-> <<>>, seen |-> {},
     extracted |-> <<>>]

\* Lines 105-188: the three passes for the lowered query q.
MatchPasses(q, students, long, root, hasPdfReader) ==
    LET one == StudentPass(EmptyResults, q, students.rows, root)
        two == [one EXCEPT !.courses = CoursePass(q, long)]
    IN  DocumentPass(two, q, root, hasPdfReader)

\* Lines 191-199 clearing one sequence only.
ApplyFilterOneOnly(results, filter_type) ==
    IF filter_type = "students" THEN [results EXCEPT !.courses = <<>>]
    ELSE IF filter_type = "courses" THEN [results EXCEPT !.students = <<>>]
    ELSE IF filter_type = "docs" THEN [results EXCEPT !.students = <<>>]
    ELSE results

\* Lines 191-199.
ApplyFilter(results, filter_type) ==
    IF filter_type = "students"
    THEN [results EXCEPT !.courses = <<>>, !.documents = <<>>]
    ELSE IF filter_type = "courses"
    THEN [results EXCEPT !.students = <<>>, !.documents = <<>>]
    ELSE IF filter_type = "docs"
    THEN [results EXCEPT !.students = <<>>, !.courses = <<>>]
    ELSE results

\* Lines 104-199 without the test of line 104.
SearchUnguarded(query, filter_type, students, long, root, hasPdfReader) ==
    ApplyFilter(MatchPasses(Lower(Strip(query)), students, long, root, hasPdfReader),
                filter_type)

\* Lines 102-199: results for the stripped query.
Search(query, filter_type, students, long, root, hasPdfReader) ==
    IF query # <<>>
    THEN ApplyFilter(MatchPasses(Lower(Strip(query)), students, long, root,
                                 hasPdfReader),
                     filter_type)
    ELSE EmptyResults

----------------------------------------------------------------------------
(* The data sets the process is started on *)

\* Most rows of the students table, of the grades table.
MaxStudents == 2
MaxGradeRows == 2

SeqsUpTo(S, n) == UNION {[1..k -> S] : k \in 0..n}

S1 == <<"S","1">>
S2 == <<"S","2">>
C1 == <<"C","1">>
C2 == <<"C","2">>
C9 == <<"C","9">>

StudentColumns == <<col_student_id, col_name, col_programme, col_email>>

StudentRecord(sid, nm, prog, mail) ==
    (col_student_id :> sid) @@ (col_name :> nm) @@ (col_programme :> prog)
    @@ (col_email :> mail)

StudentRows ==
    { StudentRecord(<<" ","S","1"," ">>, <<"A","d","a">>, <<"C","S">>, <<"a","@","x">>),
      StudentRecord(S1, <<"B","o","b">>, <<>>, <<"N","A">>),
      StudentRecord(S2, <<"R","e","v">>, <<"L","a","w">>, <<>>) }

StudentTables ==
    {[columns |-> StudentColumns, rows |-> rows] :
        rows \in SeqsUpTo(StudentRows, MaxStudents)}
    \cup {[columns |-> <<col_name>>, rows |-> <<(col_name :> <<"R","e","v">>)>>]}

DefaultStudents ==
    [columns |-> StudentColumns,
     rows |-> <<StudentRecord(<<" ","S","1"," ">>, <<"A","d","a">>, <<"C","S">>,
                              <<"a","@","x">>)>>]

Row2(c1, v1, c2, v2) == (c1 :> v1) @@ (c2 :> v2)
Row3(c1, v1, c2, v2, c3, v3) == (c1 :> v1) @@ (c2 :> v2) @@ (c3 :> v3)

\* The layouts of grades.csv: its header and the rows it may hold.
GradeLayouts ==
    { [columns |-> <<col_student_id, C1, C2>>,
       pool |-> { Row3(col_student_id, S1, C1, <<"8","8">>, C2, <<"9","1">>),
                  Row3(col_student_id, S2, C1, <<"7","0">>, C2, <<>>) }],
      [columns |-> <<col_student_id, C1>>,
       pool |-> { Row2(col_student_id, S1, C1, <<"8","8">>),
                  Row2(col_student_id, S2, C1, <<"7","0">>) }],
      [columns |-> <<col_student_id, col_course_id>>,
       pool |-> { Row2(col_student_id, S1, col_course_id, C1),
                  Row2(col_student_id, S2, col_course_id, C9) }],
      [columns |-> <<col_student_id, col_course_id, col_score>>,
       pool |-> { Row3(col_student_id, S1, col_course_id, C1, col_score, <<"8","8">>),
                  Row3(col_student_id, S2, col_course_id, C9, col_score, <<"7","0">>) }],
      [columns |-> <<col_student_id, C1, col_score>>,
       pool |-> { Row3(col_student_id, S1, C1, <<"8","8">>, col_score, <<"5">>) }],
      [columns |-> <<col_course_id, col_title, col_score>>,
       pool |-> { Row3(col_course_id, C1, col_title, <<"O","l","d">>, col_score, <<"8","8">>),
                  Row3(col_course_id, C9, col_title, <<>>, col_score, <<"7","0">>) }] }

GradeTables ==
    UNION {{[columns |-> layout.columns, rows |-> rows] :
               rows \in SeqsUpTo(layout.pool, MaxGradeRows)} : layout \in GradeLayouts}

DefaultGrades ==
    [columns |-> <<col_student_id, C1, C2>>,
     rows |-> <<Row3(col_student_id, S1, C1, <<"8","8">>, C2, <<"9","1">>)>>]

CsvFile(table) == [exists |-> TRUE, parses |-> TRUE, table |-> table]
MissingCsv == [exists |-> FALSE, parses |-> FALSE, table |-> EmptyFrame]
MalformedCsv == [exists |-> TRUE, parses |-> FALSE, table |-> EmptyFrame]

List(items) == [kind |-> "list", items |-> items]

Nets == <<"N","e","t","s">>
Ann == <<"A","n","n">>

CourseValues ==
    { List(<<>>),
      List(<< << <<col_course_id, C1>>, <<col_title, Nets>>, <<col_lecturer, Ann>> >> >>),
      List(<< << <<col_course_id, C1>>, <<col_title, Nets>> >>,
              << <<col_course_id, C1>>, <<col_lecturer, <<"R","e","v">> >> >> >>),
      List(<< << <<col_course_id, <<"#","1">> >>, <<col_title, Nets>> >> >>),
      List(<< << <<col_title, Nets>> >> >>),
      [kind |-> "object", items |-> <<>>] }

DefaultCourses ==
    List(<< << <<col_course_id, C1>>, <<col_title, Nets>>, <<col_lecturer, Ann>> >> >>)

JsonFile(value) == [exists |-> TRUE, parses |-> TRUE, value |-> value]
MissingJson == [exists |-> FALSE, parses |-> FALSE, value |-> EmptyList]
MalformedJson == [exists |-> TRUE, parses |-> FALSE, value |-> EmptyList]

TextFile(fname, text) ==
    [name |-> fname, kind |-> "file", children |-> {}, text |-> text,
     pages |-> <<>>, fails |-> FALSE]
PdfFile(fname, pages, fails) ==
    [name |-> fname, kind |-> "file", children |-> {}, text |-> <<"%","P","D","F">>,
     pages |-> pages, fails |-> fails]
Folder(fname, children) ==
    [name |-> fname, kind |-> "dir", children |-> children, text |-> <<>>,
     pages |-> <<>>, fails |-> FALSE]

n_txt == <<"n",".","t","x","t">>
s1_txt == <<"s","1",".","t","x","t">>
rev_txt == <<"r","e","v",".","t","x","t">>
long_txt == <<"l","o","n","g",".","t","x","t">>

\* A text longer than a preview, the query "rev" across the cut.
LongText == [i \in 1..(PreviewLen - 1) |-> "a"] \o <<"r","e","v">>

Roots ==
    { [exists |-> FALSE, entries |-> {}],
      [exists |-> TRUE, entries |-> {}],
      [exists |-> TRUE, entries |->
         { Folder(S1, { TextFile(n_txt, <<"m","i","d"," ","R","e","v">>),
                        TextFile(rev_txt, <<"x">>),
                        TextFile(s1_txt, <<"x">>) }),
           Folder(S2, { TextFile(rev_txt, <<>>),
                        TextFile(n_txt, <<"r","e","v"," ","x">>),
                        Folder(<<"s","u","b">>, {}) }),
           TextFile(<<"l","o","o","s","e",".","t","x","t">>, <<"r","e","v">>) }],
      [exists |-> TRUE, entries |->
         { Folder(S1, { TextFile(long_txt, LongText),
                        PdfFile(<<"r",".","P","D","F">>,
                                << <<"r","e","v">>, <<"None">>, <<"s","1">> >>, FALSE),
                        PdfFile(<<"b","a","d",".","p","d","f">>, <<>>, TRUE),
                        TextFile(<<"x",".","b","i","n">>, <<"r","e","v">>) }),
           Folder(<<"s","1">>, { TextFile(n_txt, <<"s","1">>) }) }] }

DefaultRoot ==
    [exists |-> TRUE, entries |->
       { Folder(S1, { TextFile(n_txt, <<"m","i","d"," ","R","e","v">>),
                      TextFile(s1_txt, <<"x">>) }) }]

Disk(students, grades, courses, root, hasPdfReader, strictMelt) ==
    [students |-> students, grades |-> grades, courses |-> courses,
     unstructured |-> root, hasPdfReader |-> hasPdfReader, strictMelt |-> strictMelt]

\* Every combination of present, missing and unparsable sources.
SourceKinds ==
    { Disk(s, g, c, r, TRUE, TRUE) :
        s \in {MissingCsv, MalformedCsv, CsvFile(DefaultStudents)},
        g \in {MissingCsv, MalformedCsv, CsvFile(DefaultGrades)},
        c \in {MissingJson, MalformedJson, JsonFile(DefaultCourses)},
        r \in {[exists |-> FALSE, entries |-> {}], DefaultRoot} }

\* Every students table with every document tree.
StudentData ==
    { Disk(CsvFile(s), CsvFile(DefaultGrades), JsonFile(DefaultCourses), r, p, TRUE) :
        s \in StudentTables, r \in Roots, p \in BOOLEAN }

\* Every grades table with every courses file, under either melt.
GradeData ==
    { Disk(CsvFile(DefaultStudents), CsvFile(g), JsonFile(c), DefaultRoot, TRUE, m) :
        g \in GradeTables, c \in CourseValues, m \in BOOLEAN }

DataSets == SourceKinds \cup StudentData \cup GradeData

\* request.args.get("q", "") and request.args.get("filter", "all")
Queries ==
    { <<>>, <<" "," ">>, <<" ","S","1"," ">>, <<"r","e","v">>, <<"n","a","n">>,
      <<"c","1">>, <<"t","x","t">> }

Filters == {"all", "students", "courses", "docs", "entities", "metrics", "documents"}

----------------------------------------------------------------------------
(* The process *)

NoRequest == [q |-> <<>>, filter |-> "all"]

NoResponse ==
    [query |-> <<>>, filter_type |-> "all", students |-> <<>>, courses_list |-> <<>>,
     docs |-> <<>>, results_students_count |-> 0, results_courses_count |-> 0,
     results_docs_count |-> 0]

Init ==
    /\ disk \in DataSets
    /\ pc = "boot"
    /\ students_df = EmptyFrame
    /\ grades_df = EmptyFrame
    /\ courses_data = EmptyList
    /\ grades_long_df = EmptyFrame
    /\ courses_df = EmptyFrame
    /\ request = NoRequest
    /\ response = NoResponse
    /\ extracted = <<>>

\* Lines 59-61.
LoadSources ==
    /\ pc = "boot"
    /\ students_df' = load_csv_safe(disk.students)
    /\ grades_df' = load_csv_safe(disk.grades)
    /\ courses_data' = load_json_safe(disk.courses)
    /\ pc' = "loaded"
    /\ UNCHANGED <<disk, grades_long_df, courses_df, request, response, extracted>>

\* Lines 63-68. A ValueError of melt is caught nowhere: the import fails.
NormalizeGrades ==
    /\ pc = "loaded"
    /\ IF IsWideLayout(grades_df) /\ MeltRaises(grades_df, disk.strictMelt)
       THEN pc' = "crashed" /\ UNCHANGED grades_long_df
       ELSE pc' = "normalized" /\ grades_long_df' = NormalizeLayout(grades_df)
    /\ UNCHANGED <<disk, students_df, grades_df, courses_data, courses_df, request,
                   response, extracted>>

\* Lines 70-81.
MergeMetadata ==
    /\ pc = "normalized"
    /\ courses_df' = DataFrame(courses_data)
    /\ grades_long_df' = MergeCourses(grades_long_df, DataFrame(courses_data))
    /\ pc' = "serving"
    /\ UNCHANGED <<disk, students_df, grades_df, courses_data, request, response,
                   extracted>>

\* Lines 98-319: one GET / request.
index(q_arg, filter_arg) ==
    /\ pc = "serving"
    /\ request' = [q |-> q_arg, filter |-> filter_arg]
    /\ LET query == Strip(q_arg)
           results == Search(query, filter_arg, students_df, grades_long_df,
                             disk.unstructured, disk.hasPdfReader)
       IN  /\ response' =
                [query |-> query, filter_type |-> filter_arg,
                 students |-> results.students,
                 courses_list |-> results.courses,
                 docs |-> results.documents,
                 results_students_count |-> Len(results.students),
                 results_courses_count |-> Len(results.courses),
                 results_docs_count |-> Len(results.documents)]
           /\ extracted' = results.extracted
    /\ pc' = "responded"
    /\ UNCHANGED <<disk, students_df, grades_df, courses_data, grades_long_df,
                   courses_df>>

\* The response is sent; the results of a request are local to it.
Respond ==
    /\ pc = "responded"
    /\ request' = NoRequest
    /\ response' = NoResponse
    /\ extracted' = <<>>
    /\ pc' = "serving"
    /\ UNCHANGED <<disk, students_df, grades_df, courses_data, grades_long_df,
                   courses_df>>

Next ==
    \/ LoadSources
    \/ NormalizeGrades
    \/ MergeMetadata
    \/ \E q_arg \in Queries, filter_arg \in Filters : index(q_arg, filter_arg)
    \/ Respond

Spec == Init /\ [][Next]_vars

----------------------------------------------------------------------------
(* Properties *)

\* The number of entries of seq equal to x.
Count(seq, x) == Cardinality({i \in DOMAIN seq : seq[i] = x})

\* The lowered query the passes run on.
LoweredQuery == Lower(response.query)

\* The files directly in the folder of UNSTRUCTURED_DIR named fname.
FilesIn(fname) ==
    IF ~disk.unstructured.exists THEN {}
    ELSE UNION {{f \in e.children : f.kind = "file"} :
                   e \in {e \in disk.unstructured.entries :
                             e.kind = "dir" /\ e.name = fname}}

\* The indices of the document hits for (sid, fname).
Hits(sid, fname) ==
    {k \in DOMAIN response.docs :
        response.docs[k].student_id = sid /\ response.docs[k].filename = fname}

\* C1: whatever the data set and the category filter, a query that is empty or
\* whitespace-only is answered with the students, courses and documents
\* sequences all empty.
C1_BlankQueryReturnsNothing ==
    (pc = "responded" /\ \A i \in DOMAIN request.q : request.q[i] \in Whitespace)
    => /\ response.students = <<>>
       /\ response.courses_list = <<>>
       /\ response.docs = <<>>

\* A whitespace-only query was served on a data set with students, grades and
\* documents.
C1_Witness ==
    /\ pc = "responded"
    /\ request.q = <<" ", " ">>
    /\ students_df.rows # <<>>
    /\ grades_long_df.rows # <<>>
    /\ FilesIn(S1) # {}

\* C2: the documents sequence of one response never holds two hits with the
\* same (student_id, filename) pair, also when the student pass and the
\* document pass both reach the same file.
C2_NoDuplicateDocumentHits ==
    pc = "responded"
    => \A i, j \in DOMAIN response.docs :
          (/\ response.docs[i].student_id = response.docs[j].student_id
           /\ response.docs[i].filename = response.docs[j].filename)
          => i = j

\* The query equals the id of a returned student whose folder the document pass
\* visits with a file in it, and the response lists that file.
C2_Witness ==
    /\ pc = "responded"
    /\ request.filter = "all"
    /\ \E i \in DOMAIN response.students :
          LET sid == Strip(Str(Get(response.students[i], col_student_id, <<>>)))
          IN  /\ Lower(sid) = LoweredQuery
              /\ \E f \in FilesIn(sid) : Hits(sid, f.name) # {}

\* C3, as stated: for a non-empty query the filter values students/entities,
\* courses/metrics and docs/documents each leave the two other sequences empty,
\* and the reported counts are the lengths of the filtered sequences.
C3_EveryNamedFilterClears ==
    (pc = "responded" /\ response.query # <<>>)
    => /\ request.filter \in {"students", "entities"}
            => response.courses_list = <<>> /\ response.docs = <<>>
       /\ request.filter \in {"courses", "metrics"}
            => response.students = <<>> /\ response.docs = <<>>
       /\ request.filter \in {"docs", "documents"}
            => response.students = <<>> /\ response.courses_list = <<>>
       /\ response.results_students_count = Len(response.students)
       /\ response.results_courses_count = Len(response.courses_list)
       /\ response.results_docs_count = Len(response.docs)

\* C3, amended: for a non-empty query the filter values students, courses and
\* docs each leave the two other sequences empty, and the reported counts are
\* the lengths of the filtered sequences.
C3_RecognisedFilterClears ==
    (pc = "responded" /\ response.query # <<>>)
    => /\ request.filter = "students"
            => response.courses_list = <<>> /\ response.docs = <<>>
       /\ request.filter = "courses"
            => response.students = <<>> /\ response.docs = <<>>
       /\ request.filter = "docs"
            => response.students = <<>> /\ response.courses_list = <<>>
       /\ response.results_students_count = Len(response.students)
       /\ response.results_courses_count = Len(response.courses_list)
       /\ response.results_docs_count = Len(response.docs)

\* The filter students was applied to a search that had matched students,
\* grades and documents.
C3_Witness ==
    /\ pc = "responded"
    /\ request.filter = "students"
    /\ response.students # <<>>
    /\ LET found == Search(response.query, "all", students_df, grades_long_df,
                           disk.unstructured, disk.hasPdfReader)
       IN  found.courses # <<>> /\ found.documents # <<>>

\* A table in long layout: a student_id and a course_id column.
IsLongTable(df) == HasColumn(df, col_student_id) /\ HasColumn(df, col_course_id)

\* The same columns and the same rows, up to the order of the rows.
SameFrame(a, b) ==
    /\ a.columns = b.columns
    /\ Len(a.rows) = Len(b.rows)
    /\ \A i \in DOMAIN a.rows : Count(a.rows, a.rows[i]) = Count(b.rows, a.rows[i])

\* C4: normalising a grades table that is already long, with or without a
\* score column, completes and leaves its rows and columns as they were, up to
\* the order of the rows.
C4_LongTableUnchanged ==
    (pc \in {"normalized", "crashed"} /\ IsLongTable(grades_df))
    => pc = "normalized" /\ SameFrame(grades_long_df, grades_df)

\* A table in wide layout: a student_id column and one column per course.
IsWideTable(df) ==
    /\ HasColumn(df, col_student_id)
    /\ ~HasColumn(df, col_course_id)
    /\ Len(df.columns) >= 2

\* The records (student_id, course_id, score) of the cells of a wide table.
CellRecord(row, c) ==
    (col_student_id :> row[col_student_id]) @@ (col_course_id :> c)
    @@ (col_score :> row[c])

\* long holds one record per row and non-identity column of wide, and nothing else.
IsPivotOf(long, wide) ==
    LET courses == SelectSeq(wide.columns, LAMBDA c : c # col_student_id)
    IN  /\ Len(long.rows) = Len(wide.rows) * Len(courses)
        /\ \A i \in DOMAIN wide.rows : \A k \in DOMAIN courses :
              LET rec == CellRecord(wide.rows[i], courses[k])
              IN  Count(long.rows, rec) =
                  Cardinality({<<i2, k2>> \in (DOMAIN wide.rows) \X (DOMAIN courses) :
                                  CellRecord(wide.rows[i2], courses[k2]) = rec})
        /\ \A j \in DOMAIN long.rows :
              /\ DOMAIN long.rows[j] = {col_student_id, col_course_id, col_score}
              /\ long.rows[j][col_course_id] # col_student_id

C6_IdentityMatchListsStudentAndFiles ==
    (pc = "responded" /\ request.filter = "all" /\ response.query # <<>>)
    => \A i \in DOMAIN students_df.rows :
          LET row == students_df.rows[i]
              sid == Strip(Str(Get(row, col_student_id, <<>>)))
          IN  Lower(sid) = LoweredQuery
              => /\ Count(response.students, row) = Count(students_df.rows, row)
                 /\ \A f \in FilesIn(sid) :
                       /\ Cardinality(Hits(sid, f.name)) = 1
                       /\ \A k \in Hits(sid, f.name) :
                             response.docs[k].preview = StudentDocument

\* The query is the id of a student, is in none of the student's name,
\* programme and email, and the student's folder holds files.
C6_Witness ==
    /\ pc = "responded"
    /\ request.filter = "all"
    /\ response.query # <<>>
    /\ \E i \in DOMAIN students_df.rows :
          LET row == students_df.rows[i]
              sid == Strip(Str(Get(row, col_student_id, <<>>)))
          IN  /\ Lower(sid) = LoweredQuery
              /\ ~StudentMatchesNoId(LoweredQuery, row)
              /\ Cardinality(FilesIn(sid)) >= 2
              /\ Count(response.students, row) = 1

\* The files of the student folders whose text holds the query, with the
\* folder's name.
ContentMatches ==
    IF ~disk.unstructured.exists THEN {}
    ELSE UNION {{<<e.name, f>> :
                    f \in {f \in e.children :
                              /\ f.kind = "file"
                              /\ Contains(Lower(extract_text_from_file(
                                                  f, disk.hasPdfReader)),
                                          LoweredQuery)}} :
                   e \in {e \in disk.unstructured.entries : e.kind = "dir"}}

\* The hit of (folder, file) is single and previews the first 300 characters
\* of the file's text.
PreviewsText(folder, file) ==
    LET text == extract_text_from_file(file, disk.hasPdfReader)
    IN  /\ Cardinality(Hits(folder, file.name)) = 1
        /\ \A k \in Hits(folder, file.name) :
              /\ Len(response.docs[k].preview) = (IF Len(text) < 300 THEN Len(text)
                                                  ELSE 300)
              /\ \A i \in DOMAIN response.docs[k].preview :
                    response.docs[k].preview[i] = text[i]

\* C7, as stated: under the filter all and a non-empty query q, a file whose
\* folder name is not q, whose name does not hold q and whose extracted text
\* holds q ignoring case is returned as exactly one hit, previewing the first
\* 300 characters of its text.
C7_ContentMatchPreviewsText ==
    (pc = "responded" /\ request.filter = "all" /\ response.query # <<>>)
    => \A p \in ContentMatches :
          (p[1] # response.query /\ ~Contains(p[2].name, response.query))
          => PreviewsText(p[1], p[2])

\* C7, amended: the same, for a file whose folder name is not q ignoring case
\* and is not the trimmed student_id of a student record the query matches.
C7_ContentMatchOutsideStudentPass ==
    (pc = "responded" /\ request.filter = "all" /\ response.query # <<>>)
    => \A p \in ContentMatches :
          (/\ Lower(p[1]) # LoweredQuery
           /\ ~Contains(p[2].name, response.query)
           /\ \A i \in DOMAIN response.students :
                 Strip(Str(Get(response.students[i], col_student_id, <<>>))) # p[1])
          => PreviewsText(p[1], p[2])

\* A file longer than a preview matched by its content alone, in a response
\* that returned a student.
C7_Witness ==
    /\ pc = "responded"
    /\ request.filter = "all"
    /\ response.query # <<>>
    /\ \E p \in ContentMatches :
          /\ Lower(p[1]) # LoweredQuery
          /\ ~Contains(Lower(p[2].name), LoweredQuery)
          /\ \A i \in DOMAIN response.students :
                Strip(Str(Get(response.students[i], col_student_id, <<>>))) # p[1]
          /\ Len(p[2].text) > 300
          /\ Hits(p[1], p[2].name) # {}
    /\ response.students # <<>>

\* C8: no missing or unparsable source, no layout of the grades table, no
\* unmergeable courses table ends the load: it completes, a source that
\* cannot be read is loaded empty and a merge that fails leaves the grades
\* un-merged.
C8_LoadNeverFails ==
    /\ pc # "crashed"
    /\ pc # "boot"
       => /\ ~(disk.students.exists /\ disk.students.parses) => students_df = EmptyFrame
          /\ ~(disk.grades.exists /\ disk.grades.parses) => grades_df = EmptyFrame
          /\ ~(disk.courses.exists /\ disk.courses.parses) => courses_data = EmptyList
    /\ (pc \in {"serving", "responded"} /\ HasColumn(courses_df, col_course_id)
        /\ MergeRaises(NormalizeLayout(grades_df), courses_df))
       => grades_long_df = NormalizeLayout(grades_df)

\* The course ids of the reference records.
ReferenceKeys ==
    {courses_df.rows[i][col_course_id] : i \in DOMAIN courses_df.rows}

\* The merge took place.
Merged ==
    /\ pc \in {"serving", "responded"}
    /\ HasColumn(NormalizeLayout(grades_df), col_course_id)
    /\ HasColumn(courses_df, col_course_id)
    /\ ~MergeRaises(NormalizeLayout(grades_df), courses_df)

\* row carries the cells of the un-merged row old (a column that both tables
\* have is renamed with _x).
Carries(row, old) ==
    \A c \in DOMAIN old :
        IF c \in DOMAIN row THEN row[c] = old[c]
        ELSE (c \o <<"_","x">>) \in DOMAIN row /\ row[c \o <<"_","x">>] = old[c]

\* C9: the merge keeps every row of the long grades table; a row whose
\* course_id has no reference record carries empty-string title and lecturer,
\* so that a query returns it only when the query is in its student_id or
\* course_id.
C9_UnmatchedRowsKeptBlank ==
    Merged
    => /\ \A i \in DOMAIN NormalizeLayout(grades_df).rows :
             \E j \in DOMAIN grades_long_df.rows :
                Carries(grades_long_df.rows[j], NormalizeLayout(grades_df).rows[i])
       /\ \A j \in DOMAIN grades_long_df.rows :
             grades_long_df.rows[j][col_course_id] \notin ReferenceKeys
             => \A c \in {col_title, col_lecturer} \cap DOMAIN grades_long_df.rows[j] :
                   grades_long_df.rows[j][c] = <<>>
       /\ (pc = "responded" /\ response.query # <<>>)
          => \A k \in DOMAIN response.courses_list :
                LET row == response.courses_list[k]
                IN  (/\ row[col_course_id] \notin ReferenceKeys
                     /\ ~HasColumn(grades_df, col_title)
                     /\ ~HasColumn(grades_df, col_lecturer))
                    => \/ Contains(Lower(Strip(Str(Get(row, col_student_id, <<>>)))),
                                   LoweredQuery)
                       \/ Contains(Lower(Strip(Str(row[col_course_id]))), LoweredQuery)

\* C10: within one request extract_text_from_file is called at most once for
\* each file, whichever rule of the document pass applies to it and whether
\* or not the student pass had listed it.
C10_ExtractedAtMostOnce ==
    pc = "responded"
    => \A i, j \in DOMAIN extracted : extracted[i] = extracted[j] => i = j

\* A request whose student pass listed files, whose document pass matched a
\* file by its name and extracted it, and extracted others for their content.
C10_Witness ==
    /\ pc = "responded"
    /\ request.filter = "all"
    /\ Len(extracted) >= 2
    /\ \E k \in DOMAIN response.docs : response.docs[k].preview = StudentDocument
    /\ \E k \in DOMAIN response.docs :
          /\ Contains(Lower(response.docs[k].filename), LoweredQuery)
          /\ <<response.docs[k].student_id, response.docs[k].filename>>
                \in {extracted[i] : i \in DOMAIN extracted}

====
